---- MODULE Spec2Model ----
(***************************************************************************)
(* Model of app/src/main/cpp/yuv_converter.cpp: the JNI entry point        *)
(* convertYuvToRgb and its helper clamp.                                   *)
(*                                                                         *)
(* Memory is a heap of buffers.  A plane buffer is a function from sample  *)
(* index to a byte; an output buffer is a function from slot index to the  *)
(* four bytes <<b3, b2, b1, b0>> of the stored uint32_t, highest first.    *)
(* Each invocation (call) has its own arguments, program counter and       *)
(* automatic variables; several calls may be in flight at once.            *)
(***************************************************************************)
EXTENDS Integers, Sequences, FiniteSets, TLC

VARIABLES heap,    \* buffer id -> contents
          old,     \* the heap as it was when the calls were made
          args,    \* call -> the arguments of the call
          pc,      \* call -> position in the function
          fr,      \* call -> automatic variables of the call
          reads,   \* call -> sequence of the plane indices read
          writes,  \* call -> sequence of the output indices and buffers written
          logs,    \* call -> sequence of the log entries emitted
          wild,    \* <<buffer, index>> -> the byte found at an address outside
                   \* the buffer, for the addresses read so far
          caller   \* how the caller issues the calls: "seq" or "conc"

vars == <<heap, old, args, pc, fr, reads, writes, logs, wild, caller>>

(***************************************************************************)
(* Bounds of the model.                                                    *)
(***************************************************************************)
MaxW == 3
MaxH == 3

NULL == <<"null">>

(***************************************************************************)
(* 32-bit int arithmetic of the build (two's complement).  The arithmetic  *)
(* is written as functions, whose arguments are values.                    *)
(***************************************************************************)
MinInt == -2147483647 - 1

Pow2[n \in Nat] == IF n = 0 THEN 1 ELSE 2 * Pow2[n - 1]

\* a << n on a 32-bit int: the bits that leave the word are dropped
Shl32[a \in Int, n \in 0 .. 31] ==
    (a % Pow2[31 - n]) * Pow2[n]
      + (IF (a \div Pow2[31 - n]) % 2 = 1 THEN MinInt ELSE 0)

\* the low 31 bits of a 32-bit int
Low31[a \in Int] == IF a >= 0 THEN a ELSE (a + 2147483647) + 1

Or31[a \in Nat, b \in Nat] ==
    IF a = 0 THEN b
    ELSE IF b = 0 THEN a
    ELSE (IF a % 2 = 1 \/ b % 2 = 1 THEN 1 ELSE 0)
           + 2 * Or31[a \div 2, b \div 2]

\* a | b on 32-bit ints
Or32[a \in Int, b \in Int] ==
    Or31[Low31[a], Low31[b]] + (IF a < 0 \/ b < 0 THEN MinInt ELSE 0)

\* a & 0xFF
And255(a) == a % 256

\* the four bytes of the uint32_t an int converts to, highest byte first
Bytes32[v \in Int] ==
    << (v \div 16777216) % 256, (v \div 65536) % 256, (v \div 256) % 256, v % 256 >>

(***************************************************************************)
(* Single-precision arithmetic of the build (IEEE 754 binary32, round to   *)
(* nearest, ties to even).  A float is [m, e] standing for m / 2^e.        *)
(***************************************************************************)
Sig == 16777216      \* 2^24: a float holds 24 significant bits

\* round n / d to the nearest integer, ties to even
RoundEven[n \in Nat, d \in Nat] ==
    IF 2 * (n % d) > d \/ (2 * (n % d) = d /\ (n \div d) % 2 = 1)
    THEN (n \div d) + 1 ELSE n \div d

\* n more steps of the binary long division of a number by den, from
\* quotient q and remainder r
Scale[q \in Nat, r \in Nat, den \in Nat, n \in Nat] ==
    IF n = 0 THEN [q |-> q, r |-> r]
    ELSE Scale[2 * q + (2 * r) \div den, (2 * r) % den, den, n - 1]

\* the least e >= n with floor(num * 2^e / den) >= 2^23
NormExp[num \in Nat, den \in Nat, n \in Nat] ==
    IF Scale[num \div den, num % den, den, n].q >= Sig \div 2 THEN n
    ELSE NormExp[num, den, n + 1]

\* the float nearest to (q + r / den) / 2^e
Nearest[q \in Nat, r \in Nat, den \in Nat, e \in Nat] ==
    [m |-> IF 2 * r > den \/ (2 * r = den /\ q % 2 = 1) THEN q + 1 ELSE q,
     e |-> e]

\* the float a decimal literal num/den (0 < num/den < 2) is compiled to
FloatLit(num, den) ==
    Nearest[Scale[num \div den, num % den, den, NormExp[num, den, 0]].q,
            Scale[num \div den, num % den, den, NormExp[num, den, 0]].r,
            den, NormExp[num, den, 0]]

\* number of low bits a positive integer must lose to fit 24 bits
Excess[p \in Nat] == IF p < Sig THEN 0 ELSE 1 + Excess[p \div 2]

\* q / 2^(e - k), truncated
Shift[q \in Nat, e \in Nat, k \in Nat] ==
    IF e >= k THEN q \div Pow2[e - k] ELSE q * Pow2[k - e]

\* the magnitude of (int)(c * v) for v >= 0: the exact product m * a / 2^e
\* is rounded to 24 significant bits, then truncated
MulMag[m \in Nat, e \in Nat, a \in Nat] ==
    Shift[RoundEven[m * a, Pow2[Excess[m * a]]], e, Excess[m * a]]

\* as MulTrunc, the cast rounding down instead of toward zero
MulFloor(c, v) ==
    IF v >= 0 THEN MulMag[c.m, c.e, v]
    ELSE IF MulMag[c.m, c.e, -v] * Pow2[c.e] = c.m * (-v) THEN -MulMag[c.m, c.e, -v]
    ELSE -MulMag[c.m, c.e, -v] - 1

\* (int)(c * v): v converts to float exactly, the product is rounded to a
\* float, and the cast truncates toward zero
MulTrunc(c, v) ==
    IF v >= 0 THEN MulMag[c.m, c.e, v] ELSE -MulMag[c.m, c.e, -v]

F1402    == FloatLit(1402, 1000)
F0344136 == FloatLit(344136, 1000000)
F0714136 == FloatLit(714136, 1000000)
F1772    == FloatLit(1772, 1000)

\* the centered chroma values: a byte minus 128
Centered == -128 .. 127

\* (int)(1.402f * V), (int)(0.344136f * U), (int)(0.714136f * V) and
\* (int)(1.772f * U), tabulated over the centered chroma values
RTerm  == [c \in Centered |-> MulTrunc(F1402, c)]
GTermU == [c \in Centered |-> MulTrunc(F0344136, c)]
GTermV == [c \in Centered |-> MulTrunc(F0714136, c)]
BTerm  == [c \in Centered |-> MulTrunc(F1772, c)]

\* as clamp, without the upper limit
clampLow(v) == IF v < 0 THEN 0 ELSE v

clamp(v) == IF v < 0 THEN 0 ELSE IF v > 255 THEN 255 ELSE v

ChanR(Y, V) == clamp(Y + RTerm[V])
ChanG(Y, U, V) == clamp((Y - GTermU[U]) - GTermV[V])
ChanB(Y, U) == clamp(Y + BTerm[U])

\* (R << 16) | (G << 8) | B: the opaque alpha forgotten
PackNoAlpha(R, G, B) ==
    Bytes32[Or32[Or32[Shl32[R, 16], Shl32[G, 8]], B]]

\* (0xFF << 24) | (R << 16) | (G << 8) | B, converted to uint32_t
Pack(R, G, B) ==
    Bytes32[Or32[Or32[Or32[Shl32[255, 24], Shl32[R, 16]], Shl32[G, 8]], B]]

(***************************************************************************)
(* Buffers and arguments.                                                  *)
(***************************************************************************)
Kinds == {"y", "u", "v", "out"}

Calls == DOMAIN pc

TAG == "SignatureLensNative"

\* __android_log_print(ANDROID_LOG_ERROR, TAG, ...)
LOGE(msg) == [prio |-> "ERROR", tag |-> TAG, msg |-> msg]

\* JNI: the address of a direct buffer, NULL for any other object
GetDirectBufferAddress(o) == IF o.direct THEN o.id ELSE NULL

CeilHalf(n) == (n + 1) \div 2

\* the output index computed with the luma stride
dstIdxStride(i) == fr[i].y * args[i].yRowStride + fr[i].x

\* as uvY, without the 2:1 subsampling
uvYFull(i) == fr[i].y

\* as uvX, the remainder taken in place of the quotient
uvXMod(i) == fr[i].x % 2

\* indices of the current pixel (lines 41..44 and 54)
yIdx(i)   == fr[i].y * args[i].yRowStride + fr[i].x
uvX(i)    == fr[i].x \div 2
uvY(i)    == fr[i].y \div 2
\* as uvIdx, the pixel stride forgotten
uvIdxPacked(i) == uvY(i) * args[i].uvRowStride + uvX(i)

uvIdx(i)  == uvY(i) * args[i].uvRowStride + uvX(i) * args[i].uvPixelStride
dstIdx(i) == fr[i].y * args[i].width + fr[i].x

\* a NULL address has no sample or slot at all
InBounds(buf, idx) == buf \in DOMAIN heap /\ idx \in DOMAIN heap[buf]

\* bytes a read outside a buffer may find when it does not trap
Garbage == {0, 255}

\* the values a read of buf[idx] can deliver: the sample, or whatever byte
\* lies at that address outside the buffer
Load(buf, idx) ==
    IF InBounds(buf, idx) THEN {heap[buf][idx]}
    ELSE IF <<buf, idx>> \in DOMAIN wild THEN {wild[<<buf, idx>>]}
    ELSE Garbage

\* the memory outside the buffers after buf[idx] was read as v
Seen(w, buf, idx, v) ==
    IF InBounds(buf, idx) THEN w ELSE (<<buf, idx>> :> v) @@ w

\* buf[idx] |= val
StoreOr(h, buf, idx, val) ==
    IF buf \in DOMAIN h /\ idx \in DOMAIN h[buf]
    THEN [h EXCEPT ![buf][idx] = [b \in 1 .. 4 |-> Or31[@[b], val[b]]]] ELSE h

\* buf[idx] = val
Store(h, buf, idx, val) ==
    IF buf \in DOMAIN h /\ idx \in DOMAIN h[buf]
    THEN [h EXCEPT ![buf][idx] = val] ELSE h

\* a synchronous caller issues a call only after the previous one returned
Runnable(i) ==
    caller = "conc" \/ \A j \in Calls : j < i => pc[j] = "done"

\* as Auto for locals declared static: one set for every call
Static(i) == 1

\* where the locals Y, U, V of call i live: in its own frame
Auto(i) == i

Resolved(i) ==
    [fr[i] EXCEPT !.srcY = GetDirectBufferAddress(args[i].yBuffer),
                  !.srcU = GetDirectBufferAddress(args[i].uBuffer),
                  !.srcV = GetDirectBufferAddress(args[i].vBuffer),
                  !.dst  = GetDirectBufferAddress(args[i].outBuffer)]

\* the null test without its last operand
AnyNullPlane(f) == f.srcY = NULL \/ f.srcU = NULL \/ f.srcV = NULL

AnyNull(f) == f.srcY = NULL \/ f.srcU = NULL \/ f.srcV = NULL \/ f.dst = NULL

(***************************************************************************)
(* The steps of convertYuvToRgb.                                           *)
(***************************************************************************)
\* lines 29..37: a buffer does not resolve: log and return
Fault(i) ==
    /\ pc[i] = "entry" /\ Runnable(i)
    /\ AnyNull(Resolved(i))
    /\ fr' = [fr EXCEPT ![i] = Resolved(i)]
    /\ logs' = [logs EXCEPT ![i] = Append(@, LOGE("Invalid buffers"))]
    /\ pc' = [pc EXCEPT ![i] = "done"]
    /\ UNCHANGED <<heap, old, args, reads, writes, wild, caller>>

\* lines 29..39: all four buffers resolve: enter the row loop
Enter(i) ==
    /\ pc[i] = "entry" /\ Runnable(i)
    /\ ~AnyNull(Resolved(i))
    /\ fr' = [fr EXCEPT ![i] = [Resolved(i) EXCEPT !.y = 0]]
    /\ pc' = [pc EXCEPT ![i] = "outer"]
    /\ UNCHANGED <<heap, old, args, reads, writes, logs, wild, caller>>

\* lines 39..40: y < height: start the row
RowBegin(i) ==
    /\ pc[i] = "outer" /\ Runnable(i)
    /\ fr[i].y < args[i].height
    /\ fr' = [fr EXCEPT ![i].x = 0]
    /\ pc' = [pc EXCEPT ![i] = "inner"]
    /\ UNCHANGED <<heap, old, args, reads, writes, logs, wild, caller>>

\* lines 39 and 57: y >= height: return
Return(i) ==
    /\ pc[i] = "outer" /\ Runnable(i)
    /\ ~(fr[i].y < args[i].height)
    /\ pc' = [pc EXCEPT ![i] = "done"]
    /\ UNCHANGED <<heap, old, args, fr, reads, writes, logs, wild, caller>>

\* lines 40..48: x < width: read the three samples of the pixel
ReadPixel(i) ==
    /\ pc[i] = "inner" /\ Runnable(i)
    /\ fr[i].x < args[i].width
    /\ \E sy \in Load(fr[i].srcY, yIdx(i)) :
       \E su \in Load(fr[i].srcU, uvIdx(i)) :
       \E sv \in Load(fr[i].srcV, uvIdx(i)) :
          /\ fr' = [fr EXCEPT ![Auto(i)].Y = And255(sy),
                              ![Auto(i)].U = And255(su) - 128,
                              ![Auto(i)].V = And255(sv) - 128]
          /\ wild' = Seen(Seen(Seen(wild, fr[i].srcY, yIdx(i), sy),
                                fr[i].srcU, uvIdx(i), su),
                           fr[i].srcV, uvIdx(i), sv)
    /\ reads' = [reads EXCEPT ![i] =
                    Append(@, [y |-> fr[i].srcY, u |-> fr[i].srcU, v |-> fr[i].srcV,
                               yIdx |-> yIdx(i), uvIdx |-> uvIdx(i)])]
    /\ pc' = [pc EXCEPT ![i] = "write"]
    /\ UNCHANGED <<heap, old, args, writes, logs, caller>>

\* lines 46..48: a read outside a plane may trap, which ends the process
Crash(i) ==
    /\ pc[i] = "inner" /\ Runnable(i)
    /\ fr[i].x < args[i].width
    /\ \/ ~InBounds(fr[i].srcY, yIdx(i))
       \/ ~InBounds(fr[i].srcU, uvIdx(i))
       \/ ~InBounds(fr[i].srcV, uvIdx(i))
    /\ pc' = [j \in Calls |-> "crashed"]
    /\ UNCHANGED <<heap, old, args, fr, reads, writes, logs, wild, caller>>

\* lines 50..54 and 40: convert, store the pixel, x++
WritePixel(i) ==
    /\ pc[i] = "write" /\ Runnable(i)
    /\ LET R == ChanR(fr[Auto(i)].Y, fr[Auto(i)].V)
           G == ChanG(fr[Auto(i)].Y, fr[Auto(i)].U, fr[Auto(i)].V)
           B == ChanB(fr[Auto(i)].Y, fr[Auto(i)].U)
       IN  heap' = Store(heap, fr[i].dst, dstIdx(i), Pack(R, G, B))
    /\ writes' = [writes EXCEPT ![i] = Append(@, [buf |-> fr[i].dst, idx |-> dstIdx(i)])]
    /\ fr' = [fr EXCEPT ![i].x = @ + 1]
    /\ pc' = [pc EXCEPT ![i] = "inner"]
    /\ UNCHANGED <<old, args, reads, logs, wild, caller>>

\* lines 40 and 39: x >= width: y++
RowEnd(i) ==
    /\ pc[i] = "inner" /\ Runnable(i)
    /\ ~(fr[i].x < args[i].width)
    /\ fr' = [fr EXCEPT ![i].y = @ + 1]
    /\ pc' = [pc EXCEPT ![i] = "outer"]
    /\ UNCHANGED <<heap, old, args, reads, writes, logs, wild, caller>>

Step(i) ==
    \/ Fault(i)
    \/ Enter(i)
    \/ RowBegin(i)
    \/ Return(i)
    \/ ReadPixel(i)
    \/ Crash(i)
    \/ WritePixel(i)
    \/ RowEnd(i)

Next ==
    \/ \E i \in Calls : Fault(i)
    \/ \E i \in Calls : Enter(i)
    \/ \E i \in Calls : RowBegin(i)
    \/ \E i \in Calls : Return(i)
    \/ \E i \in Calls : ReadPixel(i)
    \/ \E i \in Calls : Crash(i)
    \/ \E i \in Calls : WritePixel(i)
    \/ \E i \in Calls : RowEnd(i)

(***************************************************************************)
(* Calls the caller can make.                                              *)
(***************************************************************************)
Geom(w, h, yrs, uvrs, ps) ==
    [width |-> w, height |-> h, yRowStride |-> yrs,
     uvRowStride |-> uvrs, uvPixelStride |-> ps]

\* a plane of len samples: base, base + step, ... (mod 256)
Ramp(base, step, len) == [k \in 0 .. len - 1 |-> (base + step * k) % 256]

YLen(g)  == g.yRowStride * g.height
UVLen(g) == g.uvRowStride * CeilHalf(g.height)

\* what the output buffer holds before a call: 0xDEADBEEF or 0 in every slot
Stale   == <<222, 173, 190, 239>>
Zeroed  == <<0, 0, 0, 0>>
OutBuf(g, fill) == [k \in 0 .. g.width * g.height - 1 |-> fill]

\* a call: geometry, the three planes, the output buffer and the set of
\* buffer arguments that are not direct buffers
Call(g, yPlane, uPlane, vPlane, out, nondirect) ==
    [g |-> g, y |-> yPlane, u |-> uPlane, v |-> vPlane, out |-> out,
     nondirect |-> nondirect]

\* the state right after the caller has made the calls cs[1], cs[2], ...
SetUp(cs, mode) ==
    /\ heap = [b \in (DOMAIN cs) \X Kinds |-> cs[b[1]][b[2]]]
    /\ old = heap
    /\ args = [i \in DOMAIN cs |->
                [yBuffer   |-> [id |-> <<i, "y">>,   direct |-> "y" \notin cs[i].nondirect],
                 uBuffer   |-> [id |-> <<i, "u">>,   direct |-> "u" \notin cs[i].nondirect],
                 vBuffer   |-> [id |-> <<i, "v">>,   direct |-> "v" \notin cs[i].nondirect],
                 width         |-> cs[i].g.width,
                 height        |-> cs[i].g.height,
                 yRowStride    |-> cs[i].g.yRowStride,
                 uvRowStride   |-> cs[i].g.uvRowStride,
                 uvPixelStride |-> cs[i].g.uvPixelStride,
                 outBuffer |-> [id |-> <<i, "out">>, direct |-> "out" \notin cs[i].nondirect]]]
    /\ pc = [i \in DOMAIN cs |-> "entry"]
    /\ fr = [i \in DOMAIN cs |->
                [srcY |-> NULL, srcU |-> NULL, srcV |-> NULL, dst |-> NULL,
                 x |-> 0, y |-> 0, Y |-> 0, U |-> 0, V |-> 0]]
    /\ reads = [i \in DOMAIN cs |-> <<>>]
    /\ writes = [i \in DOMAIN cs |-> <<>>]
    /\ logs = [i \in DOMAIN cs |-> <<>>]
    /\ wild = <<>>
    /\ caller = mode

\* geometries up to MaxW x MaxH, strides one short of, equal to and one
\* above the least the frame needs
Geoms ==
    { Geom(w, h, yrs, uvrs, ps) :
        w \in 0 .. MaxW, h \in 0 .. MaxH,
        yrs \in 0 .. MaxW + 1, uvrs \in 0 .. 2 * CeilHalf(MaxW) + 1, ps \in 1 .. 2 }

NearFit(g) ==
    /\ g.yRowStride \in g.width - 1 .. g.width + 1
    /\ g.uvRowStride \in CeilHalf(g.width) * g.uvPixelStride - 1
                          .. CeilHalf(g.width) * g.uvPixelStride + 1

\* first samples <<Y, U, V>> of the planes: a dark frame with neutral chroma,
\* a bright frame and a black frame with strong chroma
Bases == {<<16, 128, 128>>, <<250, 3, 250>>, <<0, 40, 30>>}

RampCall(g, base, fill, nd) ==
    Call(g, Ramp(base[1], 37, YLen(g)), Ramp(base[2], 91, UVLen(g)),
         Ramp(base[3], 53, UVLen(g)), OutBuf(g, fill), nd)

\* one call of any near-fitting geometry
Init ==
    \E g \in {gg \in Geoms : NearFit(gg)} :
    \E base \in Bases :
    \E nd \in SUBSET Kinds :
        SetUp(<< RampCall(g, base, Stale, nd) >>, "seq")

\* the 2 x 2 frame of the specification's concrete scenario
Scenario ==
    Call(Geom(2, 2, 2, 1, 1), Ramp(16, 0, 4), Ramp(128, 0, 1), Ramp(128, 0, 1),
         OutBuf(Geom(2, 2, 2, 1, 1), Stale), {})

\* one call on a 1 x 1 frame: every chroma pair under a white luma, and
\* every near-fitting geometry and set of unresolvable buffers; or the
\* scenario
PixelLumas == {255}

InitPixel ==
    \/ \E sy \in PixelLumas : \E su \in 0 .. 255 : \E sv \in 0 .. 255 :
          SetUp(<< Call(Geom(1, 1, 1, 1, 1), Ramp(sy, 0, 1), Ramp(su, 0, 1),
                        Ramp(sv, 0, 1), OutBuf(Geom(1, 1, 1, 1, 1), Stale), {}) >>,
                "seq")
    \/ SetUp(<< Scenario >>, "seq")
    \/ \E g \in {gg \in Geoms : NearFit(gg) /\ gg.width = 1 /\ gg.height = 1} :
       \E base \in Bases :
       \E nd \in SUBSET Kinds :
          SetUp(<< RampCall(g, base, Stale, nd) >>, "seq")

(***************************************************************************)
(* Two calls, one after the other, on frames that differ in a known way.   *)
(***************************************************************************)
\* a 4 x 4 planar frame, a 4 x 4 frame with padded rows and interleaved
\* chroma, and a 2 x 2 frame whose luma stride is too short
PairGeoms == {Geom(4, 4, 4, 2, 1), Geom(4, 4, 5, 4, 2), Geom(2, 2, 1, 1, 1)}

LumaSet == {5, 128, 250}
ChromaSet == {20, 128, 240}

\* where the caller lays out the luma of pixel (x, y)
LumaAt(g, x, y) == y * g.yRowStride + x

\* luma planes: a ramp, with any luma at pixels (0, 0) and (1, 1)
LumaPlanes(g) ==
    { [k \in 0 .. YLen(g) - 1 |->
          IF k = LumaAt(g, 0, 0) THEN a
          ELSE IF k = LumaAt(g, 1, 1) THEN b
          ELSE (70 + 37 * k) % 256] : a \in LumaSet, b \in LumaSet }

\* chroma planes: a ramp, with any chroma at sample 0
ChromaPlanes(g, base, step) ==
    { [k \in 0 .. UVLen(g) - 1 |-> IF k = 0 THEN c ELSE (base + step * k) % 256] :
          c \in ChromaSet }

FirstCalls(g) ==
    { Call(g, yp, up, vp, OutBuf(g, Stale), {}) :
          yp \in LumaPlanes(g), up \in ChromaPlanes(g, 128, 91),
          vp \in ChromaPlanes(g, 128, 53) }

\* the luma samples of six pixels
LumaSpots(g) ==
    { LumaAt(g, p[1], p[2]) :
          p \in {<<0, 0>>, <<1, 0>>, <<0, 1>>, <<1, 1>>, <<2, 1>>, <<3, 3>>} }
      \cap (0 .. YLen(g) - 1)

\* how the second call differs from the first: not at all, in an output
\* buffer that does not resolve, in U[0] and V[0], or in one luma sample
Changes(g) ==
    {[kind |-> k, a |-> 0, b |-> 0] : k \in {"same", "unresolved"}}
      \cup {[kind |-> "chroma", a |-> u, b |-> v] : u \in ChromaSet, v \in ChromaSet}
      \cup {[kind |-> "luma", a |-> k, b |-> l] : k \in LumaSpots(g), l \in LumaSet}

\* the second call; its output buffer holds zeros where the first held 0xDEADBEEF
Changed(c, ch) ==
    Call(c.g,
         IF ch.kind = "luma" THEN [c.y EXCEPT ![ch.a] = ch.b] ELSE c.y,
         IF ch.kind = "chroma" THEN [c.u EXCEPT ![0] = ch.a] ELSE c.u,
         IF ch.kind = "chroma" THEN [c.v EXCEPT ![0] = ch.b] ELSE c.v,
         OutBuf(c.g, Zeroed),
         IF ch.kind = "unresolved" THEN {"out"} ELSE {})

InitPair ==
    \E g \in PairGeoms :
    \E c \in FirstCalls(g) :
    \E ch \in Changes(g) :
        SetUp(<< c, Changed(c, ch) >>, "seq")

(***************************************************************************)
(* Two calls in flight at once, from two threads, on disjoint buffers.     *)
(***************************************************************************)
ConcGeoms == {Geom(2, 2, 2, 1, 1), Geom(3, 1, 4, 4, 2), Geom(2, 2, 1, 1, 1)}

InitConc ==
    \E g1 \in ConcGeoms, g2 \in ConcGeoms :
    \E b1 \in Bases, b2 \in Bases :
    \E nd \in {{}, {"v"}} :
        SetUp(<< RampCall(g1, b1, Stale, {}), RampCall(g2, b2, Zeroed, nd) >>, "conc")

Spec == Init /\ [][Next]_vars

SpecPixel == InitPixel /\ [][Next]_vars

SpecPair == InitPair /\ [][Next]_vars

\* each thread keeps running while its call has a step to take
SpecConc == InitConc /\ [][Next]_vars /\ \A i \in 1 .. 2 : WF_vars(Step(i))

(***************************************************************************)
(* Vocabulary of the properties.                                           *)
(***************************************************************************)
AllResolve(i) ==
    /\ args[i].yBuffer.direct /\ args[i].uBuffer.direct
    /\ args[i].vBuffer.direct /\ args[i].outBuffer.direct

\* the caller's geometry preconditions
GeomOK(a) ==
    /\ a.width > 0 /\ a.height > 0
    /\ a.yRowStride >= a.width
    /\ a.uvPixelStride >= 1
    /\ a.uvRowStride >= CeilHalf(a.width) * a.uvPixelStride

Slots(i) == 0 .. args[i].width * args[i].height - 1

TimesWritten(i, k) ==
    Cardinality({n \in DOMAIN writes[i] : writes[i][n].idx = k})

(***************************************************************************)
(* C1: after a call in which all four buffers resolve and width > 0,       *)
(* height > 0, every output slot y*width + x has been written exactly      *)
(* once and no slot outside 0 .. width*height - 1 has been written.        *)
(***************************************************************************)
C1_EverySlotOnce ==
    \A i \in Calls :
        (pc[i] = "done" /\ AllResolve(i) /\ args[i].width > 0 /\ args[i].height > 0)
        => /\ \A yy \in 0 .. args[i].height - 1 : \A xx \in 0 .. args[i].width - 1 :
                 TimesWritten(i, yy * args[i].width + xx) = 1
           /\ \A n \in DOMAIN writes[i] :
                 /\ writes[i][n].idx \in Slots(i)
                 /\ writes[i][n].buf = args[i].outBuffer.id

C1_Witness ==
    \E i \in Calls :
        /\ pc[i] = "done" /\ AllResolve(i)
        /\ args[i].width = 3 /\ args[i].height = 2 /\ args[i].yRowStride = 4
        /\ Len(writes[i]) = 6

(***************************************************************************)
(* C2: if at least one of the four buffers resolves to a null address, the *)
(* call returns normally, reads no plane sample, writes no output slot,    *)
(* leaves every buffer as it was, and emits exactly one error log entry.   *)
(***************************************************************************)
C2_FaultWritesNothing ==
    \A i \in Calls :
        ~AllResolve(i)
        => /\ pc[i] \in {"entry", "done"}
           /\ reads[i] = <<>>
           /\ writes[i] = <<>>
           /\ heap = old
           /\ pc[i] = "entry" => logs[i] = <<>>
           /\ pc[i] = "done" => /\ Len(logs[i]) = 1
                                /\ logs[i][1].prio = "ERROR"

C2_Witness ==
    \E i \in Calls :
        /\ pc[i] = "done"
        /\ ~args[i].outBuffer.direct /\ args[i].yBuffer.direct
        /\ args[i].width = 2 /\ args[i].height = 2
        /\ Len(logs[i]) = 1
        /\ heap[args[i].outBuffer.id] = OutBuf(args[i], Stale)

(***************************************************************************)
(* C4: every written slot holds 0xFF000000 | (R << 16) | (G << 8) | B with *)
(* R, G, B in 0..255: its highest byte is 0xFF and the three lower bytes   *)
(* are exactly R, G and B of the pixel, none carrying into a neighbour.    *)
(***************************************************************************)
C4_PackedPixel ==
    \A i \in Calls :
        /\ \A n \in DOMAIN writes[i] :
              LET px == heap[writes[i][n].buf][writes[i][n].idx]
              IN  /\ px[1] = 255
                  /\ px[2] \in 0 .. 255 /\ px[3] \in 0 .. 255 /\ px[4] \in 0 .. 255
        \* right after a store the locals still hold the pixel's samples
        /\ (pc[i] = "inner" /\ fr[i].x > 0)
           => LET w == writes[i][Len(writes[i])]
                  R == ChanR(fr[i].Y, fr[i].V)
                  G == ChanG(fr[i].Y, fr[i].U, fr[i].V)
                  B == ChanB(fr[i].Y, fr[i].U)
              IN  /\ R \in 0 .. 255 /\ G \in 0 .. 255 /\ B \in 0 .. 255
                  /\ heap[w.buf][w.idx] = <<255, R, G, B>>

C4_Witness ==
    \E i \in Calls :
        /\ pc[i] = "inner" /\ fr[i].x > 0
        /\ ChanR(fr[i].Y, fr[i].V) = 255
        /\ ChanG(fr[i].Y, fr[i].U, fr[i].V) \in 1 .. 254
        /\ ChanB(fr[i].Y, fr[i].U) = 0
        /\ heap[fr[i].dst][dstIdx(i) - 1][1] = 255

(***************************************************************************)
(* C10: under the geometry preconditions every index the loop uses is in   *)
(* bounds, for odd and even sizes: 0 <= yIdx < yRowStride*height,          *)
(* 0 <= uvIdx < uvRowStride*ceil(height/2), 0 <= y*width+x < width*height. *)
(***************************************************************************)
C10_IndicesInBounds ==
    \A i \in Calls :
        GeomOK(args[i])
        => /\ \A n \in DOMAIN reads[i] :
                 /\ reads[i][n].yIdx \in 0 .. args[i].yRowStride * args[i].height - 1
                 /\ reads[i][n].uvIdx \in
                       0 .. args[i].uvRowStride * CeilHalf(args[i].height) - 1
           /\ \A n \in DOMAIN writes[i] : writes[i][n].idx \in Slots(i)

C10_Witness ==
    \E i \in Calls :
        /\ pc[i] = "done" /\ GeomOK(args[i])
        /\ args[i].width = 3 /\ args[i].height = 3
        /\ args[i].uvPixelStride = 2 /\ args[i].uvRowStride = 4
        /\ Len(reads[i]) = 9
        /\ reads[i][9].uvIdx = 6

(***************************************************************************)
(* The conversion as the specification states it, in exact arithmetic:     *)
(* t truncates the exact product toward zero, and clamp is max(0, min(255, *)
(* v)).  A coefficient is the ratio num / den of its decimal digits.       *)
(***************************************************************************)
Min(a, b) == IF a <= b THEN a ELSE b
Max(a, b) == IF a >= b THEN a ELSE b
Clamp255(v) == Max(0, Min(255, v))

\* t((num / den) * v)
TruncExact(num, den, v) ==
    IF v >= 0 THEN (num * v) \div den ELSE -((num * (-v)) \div den)

ExactR == [c \in Centered |-> TruncExact(1402, 1000, c)]
ExactGU == [c \in Centered |-> TruncExact(344136, 1000000, c)]
ExactGV == [c \in Centered |-> TruncExact(714136, 1000000, c)]
ExactB == [c \in Centered |-> TruncExact(1772, 1000, c)]

SpecR(Y, V) == Clamp255(Y + ExactR[V])
SpecG(Y, U, V) == Clamp255(Y - ExactGU[U] - ExactGV[V])
SpecB(Y, U) == Clamp255(Y + ExactB[U])

\* call i has just stored a pixel and its locals still hold the samples
JustStored(i) == pc[i] = "inner" /\ fr[i].x > 0

LastStored(i) ==
    heap[writes[i][Len(writes[i])].buf][writes[i][Len(writes[i])].idx]

(***************************************************************************)
(* C3: for every pixel, with Y in 0..255 and U, V in -128..127, the        *)
(* channels are R = clamp(Y + t(1.402 V)), G = clamp(Y - t(0.344136 U) -   *)
(* t(0.714136 V)), B = clamp(Y + t(1.772 U)), t truncating toward zero and *)
(* each product truncated on its own; for all 256^3 triples (Y, U, V).     *)
(***************************************************************************)
C3_Formula ==
    \A i \in Calls :
        JustStored(i)
        => /\ fr[i].Y \in 0 .. 255 /\ fr[i].U \in Centered /\ fr[i].V \in Centered
           \* the pixel this call stored
           /\ LastStored(i) = <<255, SpecR(fr[i].Y, fr[i].V),
                                     SpecG(fr[i].Y, fr[i].U, fr[i].V),
                                     SpecB(fr[i].Y, fr[i].U)>>
           \* and, once per chroma pair, every luma with it (R is a function
           \* of Y and V, B of Y and U: one U, one V covers them)
           /\ fr[i].Y = 255 => \A Y \in 0 .. 255 :
                 ChanG(Y, fr[i].U, fr[i].V) = SpecG(Y, fr[i].U, fr[i].V)
           /\ (fr[i].Y = 255 /\ fr[i].U = 0) => \A Y \in 0 .. 255 :
                 ChanR(Y, fr[i].V) = SpecR(Y, fr[i].V)
           /\ (fr[i].Y = 255 /\ fr[i].V = 0) => \A Y \in 0 .. 255 :
                 ChanB(Y, fr[i].U) = SpecB(Y, fr[i].U)

\* a pixel whose three products are all negative and not whole numbers
C3_Witness ==
    \E i \in Calls :
        /\ JustStored(i) /\ AllResolve(i)
        /\ fr[i].Y = 255 /\ fr[i].U = -101 /\ fr[i].V = -77
        /\ LastStored(i) = <<255, 148, 255, 77>>

(***************************************************************************)
(* C7: a pixel whose centered chroma is U = 0, V = 0 has R = G = B = Y,    *)
(* for every Y in 0..255; the 2 x 2 scenario (luma 16, chroma bytes 128)   *)
(* yields 0xFF101010 in all four slots; and a channel whose unclamped      *)
(* value is above 255 is stored as 255, one below 0 as 0.                  *)
(***************************************************************************)
IsScenario(i) ==
    /\ AllResolve(i)
    /\ args[i].width = 2 /\ args[i].height = 2 /\ args[i].yRowStride = 2
    /\ args[i].uvRowStride = 1 /\ args[i].uvPixelStride = 1
    /\ old[args[i].yBuffer.id] = Ramp(16, 0, 4)
    /\ old[args[i].uBuffer.id] = Ramp(128, 0, 1)
    /\ old[args[i].vBuffer.id] = Ramp(128, 0, 1)

Saturates(raw, stored) ==
    /\ raw > 255 => stored = 255
    /\ raw < 0 => stored = 0
    /\ raw \in 0 .. 255 => stored = raw

C7_Formula ==
    \A i \in Calls :
        /\ (JustStored(i) /\ fr[i].U = 0 /\ fr[i].V = 0)
           => /\ LastStored(i) = <<255, fr[i].Y, fr[i].Y, fr[i].Y>>
              /\ \A Y \in 0 .. 255 :
                    ChanR(Y, 0) = Y /\ ChanG(Y, 0, 0) = Y /\ ChanB(Y, 0) = Y
        /\ (pc[i] = "done" /\ IsScenario(i))
           => \A k \in 0 .. 3 : heap[args[i].outBuffer.id][k] = <<255, 16, 16, 16>>
        /\ JustStored(i)
           => /\ Saturates(fr[i].Y + ExactR[fr[i].V], LastStored(i)[2])
              /\ Saturates(fr[i].Y - ExactGU[fr[i].U] - ExactGV[fr[i].V],
                           LastStored(i)[3])
              /\ Saturates(fr[i].Y + ExactB[fr[i].U], LastStored(i)[4])

\* Y = 255, V = 127: the unclamped R is 433 and R is stored as 255
C7_Witness ==
    \E i \in Calls :
        /\ JustStored(i) /\ AllResolve(i)
        /\ fr[i].Y = 255 /\ fr[i].V = 127 /\ fr[i].U = 127
        /\ fr[i].Y + ExactR[fr[i].V] = 433
        /\ LastStored(i) = <<255, 255, 122, 255>>

(***************************************************************************)
(* Vocabulary for two calls.                                               *)
(***************************************************************************)
YPlane(i) == old[args[i].yBuffer.id]
UPlane(i) == old[args[i].uBuffer.id]
VPlane(i) == old[args[i].vBuffer.id]
Out(i)    == heap[args[i].outBuffer.id]

Completed(i) == pc[i] = "done" /\ AllResolve(i)

\* every call the caller made has returned
AllReturned == \A j \in Calls : pc[j] = "done"

SameGeom(i, j) ==
    /\ args[i].width = args[j].width /\ args[i].height = args[j].height
    /\ args[i].yRowStride = args[j].yRowStride
    /\ args[i].uvRowStride = args[j].uvRowStride
    /\ args[i].uvPixelStride = args[j].uvPixelStride

\* the samples the specification assigns to pixel (x, y) of call i
LumaOf(i, x, y) == YPlane(i)[y * args[i].yRowStride + x]
ChromaIdx(i, x, y) ==
    (y \div 2) * args[i].uvRowStride + (x \div 2) * args[i].uvPixelStride
UOf(i, x, y) == UPlane(i)[ChromaIdx(i, x, y)] - 128
VOf(i, x, y) == VPlane(i)[ChromaIdx(i, x, y)] - 128

\* the unclamped channels of pixel (x, y): c = 2 is R, 3 is G, 4 is B
Raw(i, x, y, c) ==
    CASE c = 2 -> LumaOf(i, x, y) + ExactR[VOf(i, x, y)]
      [] c = 3 -> LumaOf(i, x, y) - ExactGU[UOf(i, x, y)] - ExactGV[VOf(i, x, y)]
      [] c = 4 -> LumaOf(i, x, y) + ExactB[UOf(i, x, y)]

\* the packed pixel the specification assigns to pixel (x, y)
PixelOf(i, x, y) ==
    <<255, Clamp255(Raw(i, x, y, 2)), Clamp255(Raw(i, x, y, 3)),
           Clamp255(Raw(i, x, y, 4))>>

Block0 == {<<0, 0>>, <<1, 0>>, <<0, 1>>, <<1, 1>>}

\* the change of channel c of pixel p from call i to call j
Delta(i, j, p, c) ==
    Out(j)[p[2] * args[j].width + p[1]][c] - Out(i)[p[2] * args[i].width + p[1]][c]

\* calls i and j got the same frame except, possibly, U[0] and V[0]
OnlyChroma0Differs(i, j) ==
    /\ SameGeom(i, j)
    /\ YPlane(i) = YPlane(j)
    /\ \A k \in DOMAIN UPlane(i) \ {0} :
          UPlane(i)[k] = UPlane(j)[k] /\ VPlane(i)[k] = VPlane(j)[k]

ChromaPair(i, j) ==
    /\ i # j /\ Completed(i) /\ Completed(j)
    /\ args[i].width = 4 /\ args[i].height = 4 /\ GeomOK(args[i])
    /\ OnlyChroma0Differs(i, j)

(***************************************************************************)
(* C5 as stated: for a 4 x 4 frame, changing only U[0] and/or V[0] changes *)
(* each of R, G, B by the same amount in all four pixels (0,0), (1,0),     *)
(* (0,1), (1,1), whatever their lumas.                                     *)
(***************************************************************************)
C5_Original ==
    \A i \in Calls : \A j \in Calls :
        ChromaPair(i, j)
        => \A c \in 2 .. 4 : \A p \in Block0 : \A q \in Block0 :
              Delta(i, j, p, c) = Delta(i, j, q, c)

(***************************************************************************)
(* C5 amended: the change of a channel is the same in those of the four    *)
(* pixels whose unclamped value of that channel lies in 0..255 in both     *)
(* runs.                                                                   *)
(***************************************************************************)
Unclamped(i, j, p, c) ==
    /\ Raw(i, p[1], p[2], c) \in 0 .. 255
    /\ Raw(j, p[1], p[2], c) \in 0 .. 255

C5_Amended ==
    \A i \in Calls : \A j \in Calls :
        ChromaPair(i, j)
        => \A c \in 2 .. 4 : \A p \in Block0 : \A q \in Block0 :
              (Unclamped(i, j, p, c) /\ Unclamped(i, j, q, c))
              => Delta(i, j, p, c) = Delta(i, j, q, c)

\* V[0] goes from 20 to 128: R rises by 151 in the unclamped pixels (0, 1)
\* and (1, 1), and by 107 in pixel (1, 0), whose R was clamped to 0
C5_Witness ==
    /\ Calls = {1, 2} /\ ChromaPair(1, 2)
    /\ args[1].yRowStride = 4
    /\ VPlane(1)[0] = 20 /\ VPlane(2)[0] = 128 /\ UPlane(1)[0] = UPlane(2)[0]
    /\ YPlane(1)[5] = 250
    /\ Unclamped(1, 2, <<0, 1>>, 2) /\ Unclamped(1, 2, <<1, 1>>, 2)
    /\ Delta(1, 2, <<0, 1>>, 2) = 151 /\ Delta(1, 2, <<1, 1>>, 2) = 151
    /\ ~Unclamped(1, 2, <<1, 0>>, 2)
    /\ Delta(1, 2, <<1, 0>>, 2) = 107

(***************************************************************************)
(* C6: the value stored in slot (x, y) is a function of yPlane[y *         *)
(* yRowStride + x], uPlane[uvIdx] and vPlane[uvIdx] alone, uvIdx = (y div  *)
(* 2) * uvRowStride + (x div 2) * uvPixelStride; the four pixels of a      *)
(* 2 x 2 block read the same chroma pair; and changing the luma sample of  *)
(* one pixel leaves every other output slot unchanged (yRowStride >=       *)
(* width).                                                                 *)
(***************************************************************************)
\* the pixel the n-th read of call i belongs to
ReadX(i, n) == (n - 1) % args[i].width
ReadY(i, n) == (n - 1) \div args[i].width

\* calls i and j got the same frame except the luma sample of pixel (x, y)
OnlyLumaDiffers(i, j, x, y) ==
    /\ SameGeom(i, j)
    /\ UPlane(i) = UPlane(j) /\ VPlane(i) = VPlane(j)
    /\ \A k \in DOMAIN YPlane(i) \ {y * args[i].yRowStride + x} :
          YPlane(i)[k] = YPlane(j)[k]

SameInput(i, j) ==
    /\ SameGeom(i, j)
    /\ YPlane(i) = YPlane(j) /\ UPlane(i) = UPlane(j) /\ VPlane(i) = VPlane(j)

C8_Formula ==
    /\ \A i \in Calls : \A j \in Calls :
          (Completed(i) /\ Completed(j) /\ GeomOK(args[i]) /\ SameInput(i, j))
          => Out(i) = Out(j)
    /\ \A i \in Calls :
          /\ heap[args[i].yBuffer.id] = old[args[i].yBuffer.id]
          /\ heap[args[i].uBuffer.id] = old[args[i].uBuffer.id]
          /\ heap[args[i].vBuffer.id] = old[args[i].vBuffer.id]

\* same planes, output buffers that held 0xDEADBEEF and 0
C8_Witness ==
    /\ Calls = {1, 2} /\ Completed(1) /\ Completed(2) /\ GeomOK(args[1])
    /\ SameInput(1, 2)
    /\ old[args[1].outBuffer.id] # old[args[2].outBuffer.id]
    /\ Out(1) = Out(2)
    /\ Out(1)[0] # Out(1)[5]

(***************************************************************************)
(* C9: two calls running concurrently on disjoint buffer sets: under every *)
(* interleaving of their read and write steps each call terminates after   *)
(* width*height pixel iterations, each output buffer ends holding what the *)
(* call alone writes, and neither call reads or writes a buffer of the     *)
(* other.                                                                  *)
(***************************************************************************)
OwnBuffersOnly(i) ==
    /\ \A n \in DOMAIN reads[i] :
          /\ reads[i][n].y = args[i].yBuffer.id
          /\ reads[i][n].u = args[i].uBuffer.id
          /\ reads[i][n].v = args[i].vBuffer.id
    /\ \A n \in DOMAIN writes[i] : writes[i][n].buf = args[i].outBuffer.id

C9_Safe ==
    \A i \in Calls :
        /\ OwnBuffersOnly(i)
        /\ Len(writes[i]) <= args[i].width * args[i].height
        /\ Completed(i)
           => /\ Len(reads[i]) = args[i].width * args[i].height
              /\ Len(writes[i]) = args[i].width * args[i].height
        /\ (Completed(i) /\ GeomOK(args[i]))
           => Out(i) = [k \in Slots(i) |->
                           PixelOf(i, k % args[i].width, k \div args[i].width)]

C9_Formula ==
    /\ []C9_Safe
    /\ (\A i \in Calls : GeomOK(args[i])) => <>AllReturned

\* both calls are between the read and the write of a pixel
C9_Witness ==
    /\ caller = "conc" /\ Calls = {1, 2}
    /\ GeomOK(args[1]) /\ GeomOK(args[2]) /\ AllResolve(1) /\ AllResolve(2)
    /\ args[1].width = 2 /\ args[2].width = 3
    /\ pc[1] = "write" /\ pc[2] = "write"
    /\ Len(writes[1]) = 2 /\ Len(writes[2]) = 1
    /\ Out(1)[1] = PixelOf(1, 1, 0) /\ Out(2)[0] = PixelOf(2, 0, 0)

====
